---- MODULE Spec2Model ----
(***************************************************************************)
(* A model of app.py, the Zerodha MCX tracker: the cached fetch_data, the  *)
(* indicator pass add_technicals, calculate_zerodha_margin and the render  *)
(* script that strings them together on every rerun.                       *)
(*                                                                         *)
(* Numbers.  The program computes in binary floating point; the model      *)
(* computes the same expressions in exact rational arithmetic.  A cell of  *)
(* a table is a record [k, n, d]: k = "nan" is pandas' NaN, k = "inf" is   *)
(* +infinity and k = "num" is the rational n/d with d > 0.                 *)
(***************************************************************************)
EXTENDS Integers, Sequences, FiniteSets, TLC

VARIABLES
    now,        \* wall clock, in seconds
    cache,      \* st.cache_data's store for fetch_data: key -> entry or NoEntry
    log,        \* history: per argument tuple, its last download that returned
    mark,       \* history: the rerun that last cleared the cache
    pc,         \* position of the render script
    ui,         \* the widgets' values of this rerun
    df,         \* the script's df
    got,        \* history: how this rerun's fetch_data call went
    ran,        \* history: the steps this rerun has executed
    out,        \* what the rerun has put on the page
    arg,        \* the argument of a function applied on its own
    ret         \* and its result

vars == <<now, cache, log, mark, pc, ui, df, got, ran, out, arg, ret>>

---------------------------------------------------------------------------
(* Bounds of the model. *)

\* cell values a downloaded series takes are 1..MaxVal
MaxVal == 2
\* rows of a downloaded response when fetch_data is applied on its own
MaxRows == 3
\* reruns of the script in one behaviour
MaxCycles == 3
\* the clock stops at MaxTime
MaxTime == 300
\* rows of a price table handed to add_technicals on its own
TechRows == 21
\* rows of such a table that are drawn freely; the rest repeat them
FreeRows == 3
\* prices of such a table are 1..MaxPrice
MaxPrice == 3
\* latest prices handed to calculate_zerodha_margin on its own are 1..MaxLatest
MaxLatest == 12

---------------------------------------------------------------------------
(* Exact arithmetic on cells. *)

NaN == [k |-> "nan", n |-> 0, d |-> 1]
Inf == [k |-> "inf", n |-> 1, d |-> 1]

Abs(x) == IF x < 0 THEN -x ELSE x

RECURSIVE Gcd(_, _)
Gcd(a, b) == IF b = 0 THEN a ELSE Gcd(b, a % b)

\* the rational n/d in lowest terms, d > 0
Rat(n, d) ==
    LET s == IF d < 0 THEN -1 ELSE 1
        g == Gcd(Abs(n), Abs(d))
    IN [k |-> "num", n |-> (s * n) \div g, d |-> (s * d) \div g]

Num(v) == Rat(v, 1)

IsNaN(c) == c.k = "nan"
IsNum(c) == c.k = "num"
Defined(c) == c.k # "nan"

\* a + b, a - b; NaN propagates
AddC(a, b) ==
    IF IsNaN(a) \/ IsNaN(b) THEN NaN
    ELSE IF a.k = "inf" \/ b.k = "inf" THEN Inf
    ELSE LET g == Gcd(a.d, b.d)
         IN Rat(a.n * (b.d \div g) + b.n * (a.d \div g), (a.d \div g) * b.d)

NegC(a) == IF IsNum(a) THEN Rat(-a.n, a.d) ELSE a

SubC(a, b) ==
    IF IsNaN(a) \/ IsNaN(b) THEN NaN
    ELSE IF b.k = "inf" THEN NaN
    ELSE AddC(a, NegC(b))

\* a * b, with cross cancellation to keep the products small
MulC(a, b) ==
    IF IsNaN(a) \/ IsNaN(b) THEN NaN
    ELSE IF a.k = "inf" \/ b.k = "inf" THEN Inf
    ELSE LET g1 == Gcd(Abs(a.n), b.d)
             g2 == Gcd(Abs(b.n), a.d)
         IN Rat((a.n \div g1) * (b.n \div g2), (a.d \div g2) * (b.d \div g1))

\* a / b as IEEE division does it for a >= 0: 0/0 is NaN, x/0 is infinite,
\* x/infinity is 0
DivC(a, b) ==
    IF IsNaN(a) \/ IsNaN(b) THEN NaN
    ELSE IF b.k = "inf" THEN (IF a.k = "inf" THEN NaN ELSE Num(0))
    ELSE IF a.k = "inf" THEN Inf
    ELSE IF b.n = 0 THEN (IF a.n = 0 THEN NaN ELSE Inf)
    ELSE MulC(a, Rat(b.d, b.n))

\* a < b, a > b: every comparison with NaN is false
LtC(a, b) ==
    /\ IsNum(a) /\ IsNum(b)
    /\ SubC(a, b).n < 0

GtC(a, b) == LtC(b, a)

---------------------------------------------------------------------------
(* The contract table and the sidebar. *)

\* a label as the sequence of its characters, so that Python's substring
\* test ("10 Grams" in label) is computed and not assumed
Grams10 == <<"1", "0", " ", "G", "r", "a", "m", "s">>
Grams8 == <<"8", " ", "G", "r", "a", "m", "s">>
Gram1 == <<"1", " ", "G", "r", "a", "m">>
Kg1 == <<"1", " ", "K", "g">>

\* margin_pct is held in hundredths: 11 is 0.11
CONTRACTS ==
    [c \in {"GOLDTEN (Standard)", "GOLDM (Mini)", "GOLDPETAL (1g)",
            "GOLDGUINEA (8g)", "SILVER (Standard)", "SILVERM (Mini)",
            "SILVERMIC (Micro)"} |->
        CASE c = "GOLDTEN (Standard)" ->
               [ticker |-> "GC=F", unit_mult |-> 10, display_unit |-> Grams10,
                lot_qty |-> 1000, margin_pct |-> 11, type |-> "GOLD"]
          [] c = "GOLDM (Mini)" ->
               [ticker |-> "GC=F", unit_mult |-> 10, display_unit |-> Grams10,
                lot_qty |-> 100, margin_pct |-> 11, type |-> "GOLD"]
          [] c = "GOLDPETAL (1g)" ->
               [ticker |-> "GC=F", unit_mult |-> 1, display_unit |-> Gram1,
                lot_qty |-> 1, margin_pct |-> 11, type |-> "GOLD"]
          [] c = "GOLDGUINEA (8g)" ->
               [ticker |-> "GC=F", unit_mult |-> 8, display_unit |-> Grams8,
                lot_qty |-> 8, margin_pct |-> 11, type |-> "GOLD"]
          [] c = "SILVER (Standard)" ->
               [ticker |-> "SI=F", unit_mult |-> 1000, display_unit |-> Kg1,
                lot_qty |-> 30, margin_pct |-> 13, type |-> "SILVER"]
          [] c = "SILVERM (Mini)" ->
               [ticker |-> "SI=F", unit_mult |-> 1000, display_unit |-> Kg1,
                lot_qty |-> 5, margin_pct |-> 13, type |-> "SILVER"]
          [] c = "SILVERMIC (Micro)" ->
               [ticker |-> "SI=F", unit_mult |-> 1000, display_unit |-> Kg1,
                lot_qty |-> 1, margin_pct |-> 13, type |-> "SILVER"]]

ContractNames == DOMAIN CONTRACTS

\* TAX_FACTOR = 1.12
TAX_FACTOR == Rat(112, 100)

\* the literal 31.1035 of conv_factor (grams in a troy ounce)
TROY_OUNCE == Rat(311035, 10000)

---------------------------------------------------------------------------
(* fetch_data's body: what runs on a cache miss. *)

\* A provider response is [shape, rows].  shape tells how yf.download ended:
\*   "raise"   the call raised;
\*   "absent"  a MultiIndex frame whose Close lacks a requested column;
\*   "flat"    a frame with flat columns: data['Close'] is one Series;
\*   "ok"      a MultiIndex frame whose Close has both requested columns.
\* rows is the joint index of the two series: one record [asset, currency]
\* per timestamp, a cell being NaN where that series has no quote.
Shapes == {"raise", "absent", "flat", "ok"}

SeriesCells == {NaN} \cup {Num(v) : v \in 1..MaxVal}

RowsUpTo(n) ==
    UNION {[1..m -> [asset : SeriesCells, currency : SeriesCells]] : m \in 0..n}

EmptyTable ==
    [index |-> <<>>, Global_Price |-> <<>>, USDINR |-> <<>>, Close |-> <<>>]

\* Series.ffill: a missing cell takes the most recent known value before it
RECURSIVE Ffill(_)
Ffill(col) ==
    IF Len(col) = 0 THEN col
    ELSE LET head == Ffill(SubSeq(col, 1, Len(col) - 1))
             last == col[Len(col)]
         IN Append(head,
                   IF Defined(last) \/ Len(head) = 0 THEN last
                   ELSE head[Len(head)])

\* the positions DataFrame.dropna keeps: no column is NaN there
KeptRows(gp, usd, close) ==
    {i \in 1..Len(gp) : Defined(gp[i]) /\ Defined(usd[i]) /\ Defined(close[i])}

\* the elements of col at the positions of keep, in order
RECURSIVE Take(_, _)
Take(col, keep) ==
    IF Len(col) = 0 THEN <<>>
    ELSE LET head == Take(SubSeq(col, 1, Len(col) - 1), keep)
         IN IF Len(col) \in keep THEN Append(head, col[Len(col)]) ELSE head

\* conv_factor = (df['USDINR'] / 31.1035) * multiplier * TAX_FACTOR
ConvFactor(usd, multiplier) ==
    MulC(MulC(DivC(usd, TROY_OUNCE), Num(multiplier)), TAX_FACTOR)

\* df['Close'] = df['Global_Price'] * conv_factor, on the columns as
\* downloaded: the fill comes after it
CloseColumn(gp, usd, multiplier) ==
    [i \in 1..Len(gp) |-> MulC(gp[i], ConvFactor(usd[i], multiplier))]

\* a variant that fills and keeps every row
FillWithoutDrop(gp, usd, close) ==
    [index |-> [i \in 1..Len(gp) |-> i], Global_Price |-> Ffill(gp),
     USDINR |-> Ffill(usd), Close |-> Ffill(close)]

\* df = df.ffill().dropna()
FillAndDrop(gp, usd, close) ==
    LET fgp == Ffill(gp)
        fusd == Ffill(usd)
        fclose == Ffill(close)
        keep == KeptRows(fgp, fusd, fclose)
        idx == [i \in 1..Len(gp) |-> i]
    IN [index |-> Take(idx, keep), Global_Price |-> Take(fgp, keep),
        USDINR |-> Take(fusd, keep), Close |-> Take(fclose, keep)]

\* The body of fetch_data on one provider response: [raised, table].  Every
\* shape but "ok" ends in an exception that nothing in the body handles:
\* the download's own, or the KeyError of df_price[ticker].
FetchBody(resp, multiplier) ==
    IF resp.shape # "ok" THEN [raised |-> TRUE, table |-> EmptyTable]
    ELSE LET gp == [i \in 1..Len(resp.rows) |-> resp.rows[i].asset]
             usd == [i \in 1..Len(resp.rows) |-> resp.rows[i].currency]
         IN [raised |-> FALSE,
             table |-> FillAndDrop(gp, usd, CloseColumn(gp, usd, multiplier))]

---------------------------------------------------------------------------
(* add_technicals. *)

\* Series.diff(): the first row has no predecessor and is NaN
Diff(price) ==
    [i \in 1..Len(price) |->
        IF i = 1 THEN NaN ELSE SubC(price[i], price[i - 1])]

\* delta.where(delta > 0, 0): the cell where the test is true, else 0; the
\* test is false on NaN, so a NaN cell becomes 0
WhereGain(c) == IF GtC(c, Num(0)) THEN c ELSE Num(0)

\* -delta.where(delta < 0, 0)
WhereLoss(c) == NegC(IF LtC(c, Num(0)) THEN c ELSE Num(0))

RECURSIVE SumC(_, _, _)
SumC(col, lo, hi) ==
    IF lo > hi THEN Num(0) ELSE AddC(SumC(col, lo, hi - 1), col[hi])

\* Series.rolling(w).mean(): min_periods is w, so a row has a value only
\* when its trailing window holds w cells, none of them NaN
RollingMean(col, w) ==
    [i \in 1..Len(col) |->
        IF i < w THEN NaN ELSE DivC(SumC(col, i - w + 1, i), Num(w))]

\* Series.rolling(w).std(), ddof = 1, held as the variance under the root:
\* a cell [k |-> "sqrt", n, d] is sqrt(n/d)
RollingStd(col, w) ==
    LET sq == [j \in 1..Len(col) |-> MulC(col[j], col[j])]
    IN [i \in 1..Len(col) |->
           IF i < w THEN NaN
           ELSE LET s1 == SumC(col, i - w + 1, i)
                    s2 == SumC(sq, i - w + 1, i)
                    v == DivC(SubC(s2, DivC(MulC(s1, s1), Num(w))),
                              Num(w - 1))
                IN IF IsNaN(v) THEN NaN
                   ELSE [k |-> "sqrt", n |-> v.n, d |-> v.d]]

\* Series.ewm(span=s).mean(): min_periods defaults to 0, so every row from
\* the first observation on has a value.  The value is the weighted mean of
\* the rows up to i with weights (1 - 2/(s+1))^age; it is carried as the
\* term [k |-> "ewm", n |-> s, d |-> i] and not evaluated.
EwmMean(price, s) ==
    [i \in 1..Len(price) |->
        IF \E j \in 1..i : Defined(price[j])
        THEN [k |-> "ewm", n |-> s, d |-> i] ELSE NaN]

\* SMA_20 + Std*2 and SMA_20 - Std*2, carried as the term mean + coef*std
Band(mean, std, coef) ==
    IF IsNaN(mean) \/ IsNaN(std) THEN NaN
    ELSE [k |-> "band", mean |-> mean, std |-> std, coef |-> coef]

MaxC(a, b) == IF LtC(a, b) THEN b ELSE a

\* Series.cummax()
RECURSIVE CumMax(_)
CumMax(price) ==
    IF Len(price) = 0 THEN <<>>
    ELSE LET head == CumMax(SubSeq(price, 1, Len(price) - 1))
             last == price[Len(price)]
         IN Append(head,
                   IF Len(head) = 0 THEN last ELSE MaxC(head[Len(head)], last))

\* rs = gain / loss; RSI = 100 - (100 / (1 + rs))
RsiColumn(price) ==
    LET delta == Diff(price)
        gain == RollingMean([i \in 1..Len(price) |-> WhereGain(delta[i])], 14)
        loss == RollingMean([i \in 1..Len(price) |-> WhereLoss(delta[i])], 14)
    IN [i \in 1..Len(price) |->
           SubC(Num(100),
                DivC(Num(100), AddC(Num(1), DivC(gain[i], loss[i]))))]

\* a variant with the difference taken the other way round
DrawdownFlipped(price, peak) ==
    MulC(DivC(SubC(peak, price), peak), Num(100))

\* ((price - Peak) / Peak) * 100
DrawdownPct(price, peak) == MulC(DivC(SubC(price, peak), peak), Num(100))

add_technicals(t) ==
    LET price == t.Close
        sma == RollingMean(price, 20)
        std == RollingStd(price, 20)
        peak == CumMax(price)
    IN [index |-> t.index, Global_Price |-> t.Global_Price,
        USDINR |-> t.USDINR, Close |-> t.Close,
        RSI |-> RsiColumn(price),
        EMA_20 |-> EwmMean(price, 20),
        EMA_50 |-> EwmMean(price, 50),
        SMA_20 |-> sma,
        Std |-> std,
        Upper |-> [i \in 1..Len(price) |-> Band(sma[i], std[i], 2)],
        Lower |-> [i \in 1..Len(price) |-> Band(sma[i], std[i], -2)],
        Peak |-> peak,
        Drawdown_Pct |->
            [i \in 1..Len(price) |-> DrawdownPct(price[i], peak[i])]]

---------------------------------------------------------------------------
(* calculate_zerodha_margin. *)

\* Python's `sub in label` on strings
Contains(sub, label) ==
    \E i \in 0..(Len(label) - Len(sub)) :
        SubSeq(label, i + 1, i + Len(sub)) = sub

DisplayUnitQty(label) ==
    IF Contains(Grams10, label) THEN 10
    ELSE IF Contains(Grams8, label) THEN 8
    ELSE IF Contains(Gram1, label) THEN 1
    ELSE IF Contains(Kg1, label) THEN 1000
    ELSE 1

\* a variant that divides the lot of every contract type
UnitsInLotDivided(config) ==
    DivC(Num(config.lot_qty), Num(DisplayUnitQty(config.display_unit)))

UnitsInLot(config) ==
    IF config.type = "GOLD"
    THEN DivC(Num(config.lot_qty), Num(DisplayUnitQty(config.display_unit)))
    ELSE Num(config.lot_qty)

\* returns total_contract_value, margin_req; config is the global the
\* function reads
calculate_zerodha_margin(price_per_unit, config) ==
    LET total_contract_value == MulC(price_per_unit, UnitsInLot(config))
        margin_req == MulC(total_contract_value, Rat(config.margin_pct, 100))
    IN <<total_contract_value, margin_req>>

---------------------------------------------------------------------------
(* The cache st.cache_data(ttl=300) keeps for fetch_data. *)

\* ttl=300, in seconds
TTL == 300

\* the sidebar's options the model draws from
Periods == {"6mo"}
Intervals == {"1d"}
RenderContracts == {"GOLDTEN (Standard)", "GOLDM (Mini)", "SILVERMIC (Micro)"}

\* a variant that keys a call by period and interval alone
KeyWithoutTicker(ticker, multiplier, p, i) == <<p, i>>

\* the cache key of a call: its arguments (ticker, multiplier, p, i)
CacheKey(ticker, multiplier, p, i) == <<ticker, multiplier, p, i>>

Keys ==
    {CacheKey(CONTRACTS[c].ticker, CONTRACTS[c].unit_mult, p, i) :
        c \in RenderContracts, p \in Periods, i \in Intervals}

NoEntry ==
    [present |-> FALSE, value |-> EmptyTable, stored_at |-> 0, version |-> 0]

\* an entry answers a call while the clock is before stored_at + ttl
Live(entry, t) == entry.present /\ t < entry.stored_at + TTL

\* a variant that leaves the store as it is
KeepCache(c) == c

\* st.cache_data.clear()
ClearCache(c) == [key \in DOMAIN c |-> NoEntry]

---------------------------------------------------------------------------
(* The render script: one rerun per widget event. *)

NoDownload == [done |-> FALSE, time |-> 0, cycle |-> 0]

\* called, downloaded, raised: whether fetch_data was called, ran its body,
\* raised; at: the clock at the call; version: the rerun whose download
\* produced the table it returned; prior: the last download of the same
\* arguments that returned, as of the start of this rerun
NoFetch ==
    [called |-> FALSE, downloaded |-> FALSE, raised |-> FALSE, at |-> 0,
     version |-> 0, prior |-> NoDownload]

NoOut ==
    [error |-> FALSE, price |-> <<>>, rsi |-> <<>>, margin |-> <<>>,
     dd |-> <<>>]

NoUi ==
    [contract |-> "GOLDTEN (Standard)", period |-> "6mo", interval |-> "1d",
     refresh |-> FALSE, cycle |-> 0]

config == CONTRACTS[ui.contract]

CurKey == CacheKey(config.ticker, config.unit_mult, ui.period, ui.interval)

\* the arguments of this rerun's fetch_data call
CurArgs == <<config.ticker, config.unit_mult, ui.period, ui.interval>>

ArgTuples ==
    {<<CONTRACTS[c].ticker, CONTRACTS[c].unit_mult, p, i>> :
        c \in RenderContracts, p \in Periods, i \in Intervals}

\* What the provider answers inside a render cycle: every way of failing,
\* an empty frame, a currency series with no quote at all, one row, two
\* rows of which the second lacks its currency quote.
Quote(a, c) ==
    [asset |-> IF a = 0 THEN NaN ELSE Num(a),
     currency |-> IF c = 0 THEN NaN ELSE Num(c)]

RenderResponses ==
    {[shape |-> s, rows |-> <<>>] : s \in Shapes \ {"ok"}}
        \cup {[shape |-> "ok", rows |-> r] :
                r \in {<<>>,
                       <<Quote(1, 0)>>,
                       <<Quote(1, 1)>>,
                       <<Quote(1, 1), Quote(2, 0)>>}}

\* f"{x:.1f}", f"{x:.2f}" and f"{x:,.0f}": NaN prints as nan, a number
\* rounded to `per` parts of a unit (the model rounds halves up)
Format(c, per) ==
    IF IsNaN(c) THEN [text |-> "nan", parts |-> 0]
    ELSE IF c.k = "inf" THEN [text |-> "inf", parts |-> 0]
    ELSE [text |-> "num",
          parts |-> (2 * per * c.n + c.d) \div (2 * c.d)]

\* The script starts over: the sidebar's widgets are read and, when the
\* Refresh button was pressed, the cache is cleared.
Rerun(c, p, i, pressed) ==
    /\ pc \in {"idle", "done", "error"}
    /\ ui.cycle < MaxCycles
    /\ ui' = [contract |-> c, period |-> p, interval |-> i,
              refresh |-> pressed, cycle |-> ui.cycle + 1]
    /\ cache' = IF pressed THEN ClearCache(cache) ELSE cache
    /\ mark' = IF pressed THEN ui.cycle + 1 ELSE mark
    /\ got' = [NoFetch EXCEPT !.prior =
                  log[<<CONTRACTS[c].ticker, CONTRACTS[c].unit_mult, p, i>>]]
    /\ pc' = "fetch"
    /\ df' = EmptyTable
    /\ ran' = {}
    /\ out' = NoOut
    /\ UNCHANGED <<now, log, arg, ret>>

\* time passes between reruns, half a ttl at a time
Tick ==
    /\ pc \in {"idle", "done", "error"}
    /\ now + (TTL \div 2) <= MaxTime
    /\ now' = now + (TTL \div 2)
    /\ UNCHANGED <<cache, log, mark, pc, ui, df, got, ran, out, arg, ret>>

\* fetch_data(...) answered from the cache: the body does not run
FetchHit ==
    /\ pc = "fetch"
    /\ Live(cache[CurKey], now)
    /\ df' = cache[CurKey].value
    /\ got' = [got EXCEPT !.called = TRUE, !.at = now,
                          !.version = cache[CurKey].version]
    /\ ran' = ran \cup {"fetch_data"}
    /\ pc' = "technicals"
    /\ UNCHANGED <<now, cache, log, mark, ui, out, arg, ret>>

\* fetch_data(...) on a miss: the body runs on what the provider answers;
\* its result is stored, its exception reaches the script's except clause
FetchMiss ==
    /\ pc = "fetch"
    /\ ~Live(cache[CurKey], now)
    /\ \E resp \in RenderResponses :
          LET r == FetchBody(resp, config.unit_mult)
          IN /\ got' = [got EXCEPT !.called = TRUE, !.downloaded = TRUE,
                                   !.raised = r.raised, !.at = now,
                                   !.version = ui.cycle]
             /\ ran' = ran \cup {"fetch_data"}
             /\ IF r.raised
                THEN /\ pc' = "error"
                     /\ out' = [out EXCEPT !.error = TRUE]
                     /\ UNCHANGED <<cache, log, df>>
                ELSE /\ pc' = "technicals"
                     /\ cache' = [cache EXCEPT ![CurKey] =
                                     [present |-> TRUE, value |-> r.table,
                                      stored_at |-> now,
                                      version |-> ui.cycle]]
                     /\ log' = [log EXCEPT ![CurArgs] =
                                   [done |-> TRUE, time |-> now,
                                    cycle |-> ui.cycle]]
                     /\ df' = r.table
                     /\ out' = out
    /\ UNCHANGED <<now, mark, ui, arg, ret>>

FetchData == FetchHit \/ FetchMiss

\* df = add_technicals(df)
Technicals ==
    /\ pc = "technicals"
    /\ df' = add_technicals(df)
    /\ ran' = ran \cup {"add_technicals"}
    /\ pc' = "latest"
    /\ UNCHANGED <<now, cache, log, mark, ui, got, out, arg, ret>>

\* latest = df.iloc[-1]; prev = df.iloc[-2]: an IndexError on a table with
\* no row, or with one
ReadLatest ==
    /\ pc = "latest"
    /\ ran' = ran \cup (IF Len(df.Close) >= 1 THEN {"iloc[-1]"} ELSE {})
                  \cup (IF Len(df.Close) >= 2 THEN {"iloc[-2]"} ELSE {})
    /\ IF Len(df.Close) >= 2
       THEN pc' = "metrics" /\ out' = out
       ELSE pc' = "error" /\ out' = [out EXCEPT !.error = TRUE]
    /\ UNCHANGED <<now, cache, log, mark, ui, df, got, arg, ret>>

\* the four metrics of the top row
Metrics ==
    /\ pc = "metrics"
    /\ LET last == Len(df.Close)
       IN out' = [out EXCEPT
                    !.price = Format(df.Close[last], 1),
                    !.rsi = Format(df.RSI[last], 10),
                    !.margin = calculate_zerodha_margin(df.Close[last], config),
                    !.dd = Format(df.Drawdown_Pct[last], 100)]
    /\ ran' = ran \cup {"calculate_zerodha_margin"}
    /\ pc' = "done"
    /\ UNCHANGED <<now, cache, log, mark, ui, df, got, arg, ret>>

Init ==
    /\ now = 0
    /\ cache = [key \in Keys |-> NoEntry]
    /\ log = [a \in ArgTuples |-> NoDownload]
    /\ mark = 0
    /\ pc = "idle"
    /\ ui = NoUi
    /\ df = EmptyTable
    /\ got = NoFetch
    /\ ran = {}
    /\ out = NoOut
    /\ arg = <<>>
    /\ ret = <<>>

Next ==
    \/ \E c \in RenderContracts, p \in Periods, i \in Intervals,
          pressed \in BOOLEAN : Rerun(c, p, i, pressed)
    \/ Tick
    \/ FetchData
    \/ Technicals
    \/ ReadLatest
    \/ Metrics

Spec == Init /\ [][Next]_vars


---------------------------------------------------------------------------
(* The functions applied on their own, to inputs drawn from bounded sets. *)

\* everything the render script owns, at rest
AtRest ==
    /\ now = 0
    /\ cache = [key \in Keys |-> NoEntry]
    /\ log = [a \in ArgTuples |-> NoDownload]
    /\ mark = 0
    /\ ui = NoUi
    /\ df = EmptyTable
    /\ got = NoFetch
    /\ ran = {}
    /\ out = NoOut

Return(value) ==
    /\ pc = "call"
    /\ ret' = value
    /\ pc' = "returned"
    /\ UNCHANGED <<now, cache, log, mark, ui, df, got, ran, out, arg>>

\* fetch_data's body on every response of up to MaxRows timestamps, for the
\* multipliers of the gold and the silver contracts
FetchArgs ==
    [resp : {[shape |-> s, rows |-> <<>>] : s \in Shapes \ {"ok"}}
               \cup {[shape |-> "ok", rows |-> r] : r \in RowsUpTo(MaxRows)},
     multiplier : {CONTRACTS[c].unit_mult : c \in RenderContracts}]

InitFetch == AtRest /\ pc = "call" /\ arg \in FetchArgs /\ ret = <<>>

CallFetch == Return(FetchBody(arg.resp, arg.multiplier))

SpecFetch == InitFetch /\ [][CallFetch]_vars

\* add_technicals on price tables of up to TechRows rows: every series of
\* up to FreeRows prices, and every such series repeated to a greater length
Seeds == UNION {[1..m -> 1..MaxPrice] : m \in 1..FreeRows}

PriceTable(seed, n) ==
    LET price == [i \in 1..n |-> Num(seed[((i - 1) % Len(seed)) + 1])]
    IN [index |-> [i \in 1..n |-> i], Global_Price |-> price,
        USDINR |-> [i \in 1..n |-> Num(1)], Close |-> price]

InitTech ==
    /\ AtRest /\ pc = "call" /\ ret = <<>>
    /\ arg \in {PriceTable(seed, n) : seed \in Seeds, n \in 0..TechRows}

CallTech == Return(add_technicals(arg))

SpecTech == InitTech /\ [][CallTech]_vars

\* calculate_zerodha_margin for every contract and a range of latest prices
LatestPrices ==
    {Num(v) : v \in 1..MaxLatest} \cup {Rat(v, 2) : v \in 1..MaxLatest}
        \cup {Num(71000)}

InitMargin ==
    /\ AtRest /\ pc = "call" /\ ret = <<>>
    /\ arg \in [price : LatestPrices, contract : ContractNames]

CallMargin == Return(calculate_zerodha_margin(arg.price, CONTRACTS[arg.contract]))

SpecMargin == InitMargin /\ [][CallMargin]_vars

---------------------------------------------------------------------------
(* The properties. *)

Returned == pc = "returned"

\* the most recent known value of one series at or before timestamp ts
MostRecent(rows, field, ts) ==
    LET known == {j \in 1..ts : Defined(rows[j][field])}
    IN IF known = {} THEN NaN
       ELSE rows[CHOOSE j \in known : \A h \in known : h <= j][field]

\* C1: in the table fetch_data returns, every row's Close is
\* Global_Price * USDINR / 31.1035 * multiplier * TAX_FACTOR of the
\* Global_Price and USDINR stored in that row, filled rows included.
C1_CloseFromRow ==
    (Returned /\ ~ret.raised) =>
        \A r \in 1..Len(ret.table.Close) :
            ret.table.Close[r] =
                MulC(MulC(DivC(MulC(ret.table.Global_Price[r],
                                    ret.table.USDINR[r]), TROY_OUNCE),
                          Num(arg.multiplier)), TAX_FACTOR)

\* C2: every row of the table fetch_data returns has a defined
\* Global_Price and USDINR, each the most recent known value of its series
\* at the row's timestamp; no timestamp at which a series has no known
\* value yet is kept; and two series that overlap give a table with a row.
C2_RowsDefined ==
    (Returned /\ ~ret.raised) =>
        LET t == ret.table
            rows == arg.resp.rows
        IN /\ \A r \in 1..Len(t.index) :
                 /\ Defined(t.Global_Price[r]) /\ Defined(t.USDINR[r])
                 /\ t.Global_Price[r] = MostRecent(rows, "asset", t.index[r])
                 /\ t.USDINR[r] = MostRecent(rows, "currency", t.index[r])
           /\ \A ts \in 1..Len(rows) :
                 (IsNaN(MostRecent(rows, "asset", ts))
                     \/ IsNaN(MostRecent(rows, "currency", ts)))
                   => ~(\E r \in 1..Len(t.index) : t.index[r] = ts)
           /\ (\E ts \in 1..Len(rows) :
                  Defined(rows[ts].asset) /\ Defined(rows[ts].currency))
                => Len(t.index) >= 1

\* a returned table with a filled cell in a kept row and a dropped row
C2_Witness ==
    /\ Returned /\ ~ret.raised
    /\ Len(ret.table.index) < Len(arg.resp.rows)
    /\ \E r \in 1..Len(ret.table.index) :
          IsNaN(arg.resp.rows[ret.table.index[r]].currency)

\* C3: fetch_data never ends by raising.
C3_FetchNeverRaises == got.called => ~got.raised

NoData == got.called /\ (got.raised \/ Len(df.Close) = 0)

\* C4: in a rerun whose fetch yields no data, add_technicals, the reads of
\* the latest rows and calculate_zerodha_margin are not executed, and the
\* rerun does not reach the metrics.
C4_StopsBeforeIndicators ==
    NoData =>
        /\ ran \cap {"add_technicals", "iloc[-1]", "iloc[-2]",
                     "calculate_zerodha_margin"} = {}
        /\ pc \notin {"metrics", "done"}

\* at the call, the last download of its arguments was less than a ttl ago
\* and the cache was not cleared since
Fresh ==
    /\ got.prior.done
    /\ got.prior.cycle >= mark
    /\ got.at - got.prior.time < TTL

\* C5: in a rerun in which Refresh was pressed the cache is empty when
\* fetch_data is called, the call downloads, and the table the rerun uses
\* comes from that download.
C5_RefreshDownloads ==
    ui.refresh =>
        /\ (pc = "fetch" => \A key \in DOMAIN cache : ~cache[key].present)
        /\ got.called => (got.downloaded /\ got.version = ui.cycle)

\* Refresh pressed while the cache still held a live table for the call
C5_Witness ==
    /\ ui.refresh /\ got.called /\ ~got.raised
    /\ got.prior.done /\ got.at - got.prior.time < TTL
    /\ pc = "done"

C7_UndefinedBeforeWindow ==
    Returned =>
        \A i \in 1..Len(ret.RSI) :
            /\ i <= 13 => IsNaN(ret.RSI[i])
            /\ i <= 19 => /\ IsNaN(ret.SMA_20[i]) /\ IsNaN(ret.Std[i])
                          /\ IsNaN(ret.Upper[i]) /\ IsNaN(ret.Lower[i])
                          /\ IsNaN(ret.EMA_20[i])
            /\ i <= 49 => IsNaN(ret.EMA_50[i])
            /\ Defined(ret.RSI[i]) =>
                  \A j \in (i - 13)..i : j >= 1 /\ Defined(Diff(arg.Close)[j])

\* the label's quantity as the contract table spells it
LabelQty(label) ==
    CASE label = Grams10 -> 10
      [] label = Grams8 -> 8
      [] label = Gram1 -> 1
      [] label = Kg1 -> 1000

\* C8: total_contract_value = p * units_in_lot and margin_required =
\* total_contract_value * margin_pct, units_in_lot being lot_qty /
\* display_unit_qty for GOLD and lot_qty for SILVER; GOLD, 10 Grams, lot
\* 1000, price 71000, margin 0.11 gives 7,100,000 and 781,000.
C8_MarginFormula ==
    Returned =>
        LET c == CONTRACTS[arg.contract]
            p == arg.price
            total == ret[1]
            margin == ret[2]
            dq == LabelQty(c.display_unit)
        IN /\ IsNum(total) /\ IsNum(margin)
           /\ IF c.type = "GOLD"
              THEN total.n * p.d * dq = p.n * c.lot_qty * total.d
              ELSE total.n * p.d = p.n * c.lot_qty * total.d
           /\ margin.n * total.d * 100 = total.n * c.margin_pct * margin.d
           /\ (arg.contract = "GOLDTEN (Standard)" /\ p = Num(71000))
                => ret = <<Num(7100000), Num(781000)>>

C8_Witness ==
    /\ Returned
    /\ arg.contract = "GOLDTEN (Standard)" /\ arg.price = Num(71000)
    /\ ret = <<Num(7100000), Num(781000)>>

\* C9: Peak is the maximum Close of the row and the rows before it,
\* Drawdown_Pct is never positive, and it is 0 exactly where Close is the
\* running peak.
C9_Drawdown ==
    Returned =>
        \A i \in 1..Len(ret.Close) :
            /\ \E j \in 1..i : ret.Peak[i] = ret.Close[j]
            /\ \A j \in 1..i : ret.Close[j].n * ret.Peak[i].d
                                  <= ret.Peak[i].n * ret.Close[j].d
            /\ IsNum(ret.Drawdown_Pct[i])
            /\ ret.Drawdown_Pct[i].n <= 0
            /\ (ret.Drawdown_Pct[i].n = 0) <=> (ret.Close[i] = ret.Peak[i])

\* a fall from the peak followed by a new, higher peak
C9_Witness ==
    /\ Returned
    /\ \E i \in 1..Len(ret.Close) :
          /\ ret.Drawdown_Pct[i].n < 0
          /\ \E j \in (i + 1)..Len(ret.Close) :
                /\ ret.Drawdown_Pct[j].n = 0
                /\ ret.Peak[j] # ret.Peak[i]

\* C10: a rerun whose latest row has an undefined RSI puts the verdict
\* INSUFFICIENT_DATA in the place of the RSI, not the undefined value.
C10_InsufficientData ==
    (pc = "done" /\ IsNaN(df.RSI[Len(df.RSI)])) =>
        out.rsi = [text |-> "INSUFFICIENT_DATA", parts |-> 0]

====
